---- MODULE Spec2Model ----
(***************************************************************************)
(* Model of src/mcp-servers/meta-whatsapp/server.py: the MCP tool handler   *)
(* call_tool, the Graph API client make_request, and the module            *)
(* configuration.  A call_tool invocation runs without suspension up to    *)
(* the HTTP call inside make_request and is suspended there; when the call *)
(* has returned or raised, make_request leaves its "async with" block,     *)
(* where closing the client suspends it once more; then call_tool runs     *)
(* without suspension to its return.                                       *)
(*                                                                         *)
(* JSON documents (what response.json() returns, what json.dumps prints,   *)
(* what is sent as a body or as query parameters) are tagged values:       *)
(*   [t |-> "str",  v |-> "abc"]      [t |-> "bool", v |-> TRUE]           *)
(*   [t |-> "int",  v |-> 50]         [t |-> "null"]                       *)
(*   [t |-> "float", v |-> "1.5"]     (a float, named by its repr)         *)
(*   [t |-> "list", v |-> <<j1, j2>>]                                      *)
(*   [t |-> "obj",  v |-> << <<"key", j1>>, ... >>]   (insertion order)    *)
(* The arguments dict of call_tool is a function from its keys to Python   *)
(* values: strings, sequences of strings, sequences of button dicts.       *)
(***************************************************************************)
EXTENDS Integers, Sequences, FiniteSets, TLC

VARIABLES config, calls

vars == <<config, calls>>

(***************************************************************************)
(* Bounds of the model.                                                    *)
(***************************************************************************)
\* longest "data" array of a modelled list_templates response
MaxData == 2
\* longest buttons list of a modelled create_template call
MaxButtons == 3
\* longest header_parameters / body_parameters list of a modelled call
MaxParams == 2

(***************************************************************************)
(* JSON values and the dict / list operations the handlers use.            *)
(***************************************************************************)
JStr(s) == [t |-> "str", v |-> s]
JBool(b) == [t |-> "bool", v |-> b]
JInt(n) == [t |-> "int", v |-> n]
JFloat(text) == [t |-> "float", v |-> text]
JNull == [t |-> "null"]
JList(xs) == [t |-> "list", v |-> xs]
JObj(kvs) == [t |-> "obj", v |-> kvs]

\* k in d
HasKey(d, k) == \E i \in DOMAIN d.v : d.v[i][1] = k

\* d[k], for a key that d holds
Get(d, k) == d.v[CHOOSE i \in DOMAIN d.v : d.v[i][1] = k][2]

\* d.get(k, default)
GetOr(d, k, default) == IF HasKey(d, k) THEN Get(d, k) ELSE default

\* bool(v)
Truthy(j) ==
    CASE j.t = "str" -> j.v # ""
      [] j.t = "bool" -> j.v
      [] j.t = "int" -> j.v # 0
      [] j.t = "float" -> j.v \notin {"0.0", "-0.0"}
      [] j.t = "null" -> FALSE
      [] j.t = "list" -> Len(j.v) > 0
      [] j.t = "obj" -> Len(j.v) > 0

\* the characters of s, in order, as one-character strings
Chars(s) == [i \in 1..Len(s) |-> SubSeq(s, i, i)]

RECURSIVE JoinStr(_, _)
\* sep.join(parts)
JoinStr(parts, sep) ==
    IF Len(parts) = 0 THEN ""
    ELSE IF Len(parts) = 1 THEN parts[1]
    ELSE parts[1] \o sep \o JoinStr(Tail(parts), sep)

RECURSIVE Spaces(_)
Spaces(n) == IF n = 0 THEN "" ELSE " " \o Spaces(n - 1)

\* the printable ASCII characters (the grave accent apart, which a TLA+
\* string cannot hold): json.dumps and repr copy them, but for the quotes
\* and the backslash
AsciiText ==
    " !\"#$%&'()*+,-./0123456789:;<=>?@ABCDEFGHIJKLMNOPQRSTUVWXYZ[\\]^_"
    \o "abcdefghijklmnopqrstuvwxyz{|}~"

AsciiPrintable == {SubSeq(AsciiText, i, i) : i \in 1..Len(AsciiText)}

\* ord(ch) of the other characters a modelled string may hold
CodePoint ==
    ("\t" :> 9) @@ ("\n" :> 10) @@ ("\f" :> 12) @@ ("\r" :> 13)
    @@ ("¡" :> 161) @@ ("¿" :> 191) @@ ("Ñ" :> 209) @@ ("á" :> 225)
    @@ ("é" :> 233) @@ ("í" :> 237) @@ ("ñ" :> 241) @@ ("ó" :> 243)
    @@ ("ú" :> 250) @@ ("ü" :> 252) @@ ("€" :> 8364)

HexDigit(d) == SubSeq("0123456789abcdef", d + 1, d + 1)

\* '{:04x}'.format(n) and '{:02x}'.format(n)
Hex4(n) ==
    HexDigit(n \div 4096) \o HexDigit((n \div 256) % 16)
    \o HexDigit((n \div 16) % 16) \o HexDigit(n % 16)
Hex2(n) == HexDigit((n \div 16) % 16) \o HexDigit(n % 16)

\* one character of a string as json.dumps writes it (json.encoder:
\* ESCAPE_DCT, and \uXXXX for what is not ASCII under ensure_ascii)
JsonChar(ch, ensure_ascii) ==
    IF ch = "\"" THEN "\\\""
    ELSE IF ch = "\\" THEN "\\\\"
    ELSE IF ch = "\n" THEN "\\n"
    ELSE IF ch = "\r" THEN "\\r"
    ELSE IF ch = "\t" THEN "\\t"
    ELSE IF ch = "\f" THEN "\\f"
    ELSE IF ch \in AsciiPrintable THEN ch
    ELSE IF ensure_ascii THEN "\\u" \o Hex4(CodePoint[ch])
    ELSE ch

\* a string or an object key as json.dumps writes it
JsonString(s, ensure_ascii) ==
    "\"" \o JoinStr([i \in 1..Len(s) |-> JsonChar(SubSeq(s, i, i), ensure_ascii)],
                    "")
    \o "\""

\* one character of a string as repr writes it between quotes of kind quote
ReprChar(ch, quote) ==
    IF ch = "\\" THEN "\\\\"
    ELSE IF ch = "\n" THEN "\\n"
    ELSE IF ch = "\r" THEN "\\r"
    ELSE IF ch = "\t" THEN "\\t"
    ELSE IF ch = quote THEN "\\" \o ch
    ELSE IF ch \in AsciiPrintable THEN ch
    ELSE IF CodePoint[ch] < 32 THEN "\\x" \o Hex2(CodePoint[ch])
    ELSE ch

\* repr(s) of a string: between single quotes, or between double quotes
\* when s holds a single quote and no double one
ReprString(s) ==
    LET chars == Chars(s)
        has(q) == \E i \in DOMAIN chars : chars[i] = q
        quote == IF has("'") /\ ~has("\"") THEN "\"" ELSE "'"
    IN quote
       \o JoinStr([i \in DOMAIN chars |-> ReprChar(chars[i], quote)], "")
       \o quote

RECURSIVE PyRepr(_)
\* repr(v) of a value taken from a document
PyRepr(j) ==
    CASE j.t = "str" -> ReprString(j.v)
      [] j.t = "bool" -> IF j.v THEN "True" ELSE "False"
      [] j.t = "int" -> ToString(j.v)
      [] j.t = "float" -> j.v
      [] j.t = "null" -> "None"
      [] j.t = "list" ->
           "[" \o JoinStr([i \in DOMAIN j.v |-> PyRepr(j.v[i])], ", ") \o "]"
      [] j.t = "obj" ->
           "{" \o JoinStr([i \in DOMAIN j.v |->
                             ReprString(j.v[i][1]) \o ": " \o PyRepr(j.v[i][2])],
                          ", ")
           \o "}"

\* str(v) as an f-string prints a value taken from a document: the string
\* itself, else the repr
PyStr(j) == IF j.t = "str" THEN j.v ELSE PyRepr(j)

\* a float as json.dumps writes it: float.__repr__, but for the three
\* values that are not numbers of JSON
JsonFloat(text) ==
    CASE text = "nan" -> "NaN"
      [] text = "inf" -> "Infinity"
      [] text = "-inf" -> "-Infinity"
      [] OTHER -> text

RECURSIVE DumpsAt(_, _, _, _)
\* json.dumps(j, indent=indent, ensure_ascii=ensure_ascii) at nesting depth
\* level; indent = 0 stands for indent=None (the compact form with ", " and
\* ": ")
DumpsAt(j, indent, ensure_ascii, level) ==
    LET nl(l) == IF indent = 0 THEN "" ELSE "\n" \o Spaces(indent * l)
        sep == IF indent = 0 THEN ", " ELSE ","
    IN CASE j.t = "str" -> JsonString(j.v, ensure_ascii)
         [] j.t = "bool" -> IF j.v THEN "true" ELSE "false"
         [] j.t = "int" -> ToString(j.v)
         [] j.t = "float" -> JsonFloat(j.v)
         [] j.t = "null" -> "null"
         [] j.t = "list" ->
              IF Len(j.v) = 0 THEN "[]"
              ELSE "[" \o nl(level + 1)
                   \o JoinStr([i \in DOMAIN j.v |->
                                 DumpsAt(j.v[i], indent, ensure_ascii, level + 1)],
                              sep \o nl(level + 1))
                   \o nl(level) \o "]"
         [] j.t = "obj" ->
              IF Len(j.v) = 0 THEN "{}"
              ELSE "{" \o nl(level + 1)
                   \o JoinStr([i \in DOMAIN j.v |->
                                 JsonString(j.v[i][1], ensure_ascii) \o ": "
                                 \o DumpsAt(j.v[i][2], indent, ensure_ascii,
                                            level + 1)],
                              sep \o nl(level + 1))
                   \o nl(level) \o "}"

\* json.dumps(j), json.dumps(j, indent=2) and
\* json.dumps(j, indent=2, ensure_ascii=False)
Dumps(j, indent, ensure_ascii) == DumpsAt(j, indent, ensure_ascii, 0)

(***************************************************************************)
(* Module configuration (read once from the environment) and the client.   *)
(***************************************************************************)
API_VERSION == "v24.0"
BASE_URL == "https://graph.facebook.com/" \o API_VERSION

\* Python's None, for an argument or keyword that is not given
None == JNull

\* make_request up to its await: the HTTP request handed to httpx, or the
\* ValueError of an unsupported method with the line that raises it.  GET passes data as params, POST as
\* the json body, DELETE passes neither.
make_request(cfg, method, endpoint, data) ==
    LET url == BASE_URL \o "/" \o endpoint
        headers == [Authorization |-> "Bearer " \o cfg.META_ACCESS_TOKEN,
                    ContentType |-> "application/json"]
    IN CASE method = "GET" ->
              [kind |-> "sent",
               request |-> [method |-> "GET", url |-> url, headers |-> headers,
                            params |-> data, json |-> None]]
         [] method = "POST" ->
              [kind |-> "sent",
               request |-> [method |-> "POST", url |-> url, headers |-> headers,
                            params |-> None, json |-> data]]
         [] method = "DELETE" ->
              [kind |-> "sent",
               request |-> [method |-> "DELETE", url |-> url, headers |-> headers,
                            params |-> None, json |-> None]]
         [] OTHER ->
              [kind |-> "raise", exc |-> "ValueError",
               msg |-> "Unsupported method: " \o method, line |-> 60]

(***************************************************************************)
(* Outcomes of call_tool and access to its arguments.                      *)
(***************************************************************************)
TextContent(text) == [type |-> "text", text |-> text]

\* return [TextContent(type="text", text=text)]
Returns(text) == [kind |-> "return", value |-> <<TextContent(text)>>]

\* an exception leaving call_tool
Raises(exc, msg) == [kind |-> "raise", exc |-> exc, msg |-> msg]

NoOutcome == [kind |-> "none"]

\* bool(arguments.get(k)): the key is given and its value is not empty
ArgGiven(arguments, k) == k \in DOMAIN arguments /\ Len(arguments[k]) > 0

\* arguments.get(k, default) for a string argument
ArgOr(arguments, k, default) ==
    IF k \in DOMAIN arguments THEN arguments[k] ELSE default

\* a list of strings as a JSON list
JStrList(xs) == JList([i \in DOMAIN xs |-> JStr(xs[i])])

RECURSIVE Repeat(_, _)
\* ch * n
Repeat(ch, n) == IF n = 0 THEN "" ELSE ch \o Repeat(ch, n - 1)

\* one entry of the stack as traceback prints it (Python 3.11): the place,
\* the source line without its indentation and, under the expression that
\* was being evaluated, tildes for a subscripted value and carets for the
\* rest, from column col on; a raise statement gets no such line
Frame(file, line, func, source, col, tildes, carets) ==
    "  File \"" \o file \o "\", line " \o ToString(line) \o ", in " \o func
    \o "\n    " \o source \o "\n"
    \o (IF tildes + carets = 0 THEN ""
        ELSE "    " \o Spaces(col) \o Repeat("~", tildes)
             \o Repeat("^", carets) \o "\n")

\* the stack entry of each line of server.py that an exception of
\* create_template passes or starts at
ServerFrame(file, line) ==
    CASE line = 54 ->
           Frame(file, 54, "make_request",
                 "response = await client.get(url, headers=headers, params=data)",
                 11, 0, 51)
      [] line = 56 ->
           Frame(file, 56, "make_request",
                 "response = await client.post(url, headers=headers, json=data)",
                 11, 0, 50)
      [] line = 58 ->
           Frame(file, 58, "make_request",
                 "response = await client.delete(url, headers=headers)",
                 11, 0, 41)
      [] line = 60 ->
           Frame(file, 60, "make_request",
                 "raise ValueError(f\"Unsupported method: {method}\")", 0, 0, 0)
      [] line = 62 ->
           Frame(file, 62, "make_request", "return response.json()", 7, 0, 15)
      [] line = 318 ->
           Frame(file, 318, "call_tool", "if btn[\"type\"] == \"QUICK_REPLY\":",
                 3, 3, 8)
      [] line = 321 ->
           Frame(file, 321, "call_tool", "\"text\": btn[\"text\"]", 8, 3, 8)
      [] line = 326 ->
           Frame(file, 326, "call_tool", "\"text\": btn[\"text\"],", 8, 3, 8)
      [] line = 327 ->
           Frame(file, 327, "call_tool", "\"url\": btn[\"url\"]", 7, 3, 7)
      [] line = 339 ->
           Frame(file, 339, "call_tool",
                 "result = await make_request(\"POST\", f\"{WABA_ID}/message_templates\", payload)",
                 9, 0, 67)

\* an exception in flight: its class by qualified name, str(e), the stack
\* entries from the frame that handles it to the one that raised it, and
\* the printed tracebacks of the exceptions it was raised from
Raised(exc, msg, tb, chain) == [exc |-> exc, msg |-> msg, tb |-> tb, chain |-> chain]

\* traceback.format_exc() in the handler of e
Traceback(e) ==
    e.chain \o "Traceback (most recent call last):\n" \o e.tb
    \o e.exc \o (IF e.msg = "" THEN "" ELSE ": " \o e.msg) \o "\n"

(***************************************************************************)
(* create_template: the components builder (lines 291-336).                *)
(***************************************************************************)
RECURSIVE BuildButtonsRejectUnknown(_)
\* mutant of BuildButtons: a button of another type is rejected, not skipped
BuildButtonsRejectUnknown(buttons) ==
    IF Len(buttons) = 0 THEN [ok |-> TRUE, v |-> <<>>]
    ELSE
      LET btn == Head(buttons)
          rest == BuildButtonsRejectUnknown(Tail(buttons))
          keep(b) == IF rest.ok THEN [ok |-> TRUE, v |-> <<b>> \o rest.v]
                     ELSE rest
          KeyError(k, line) == [ok |-> FALSE, exc |-> "KeyError",
                                msg |-> "'" \o k \o "'", line |-> line]
      IN IF "type" \notin DOMAIN btn THEN KeyError("type", 318)
         ELSE IF btn["type"] = "QUICK_REPLY" THEN
              IF "text" \notin DOMAIN btn THEN KeyError("text", 321)
              ELSE keep(JObj(<< <<"type", JStr("QUICK_REPLY")>>,
                                <<"text", JStr(btn["text"])>> >>))
         ELSE IF btn["type"] = "URL" THEN
              IF "text" \notin DOMAIN btn THEN KeyError("text", 326)
              ELSE IF "url" \notin DOMAIN btn THEN KeyError("url", 327)
              ELSE keep(JObj(<< <<"type", JStr("URL")>>,
                                <<"text", JStr(btn["text"])>>,
                                <<"url", JStr(btn["url"])>> >>))
         ELSE [ok |-> FALSE, exc |-> "ValueError",
               msg |-> "Unsupported button type: " \o btn["type"], line |-> 318]

RECURSIVE BuildButtons(_)
\* the loop over arguments["buttons"]: the converted buttons, or the
\* KeyError of the first button that lacks a key the loop reads, with the
\* line that reads it
BuildButtons(buttons) ==
    IF Len(buttons) = 0 THEN [ok |-> TRUE, v |-> <<>>]
    ELSE
      LET btn == Head(buttons)
          rest == BuildButtons(Tail(buttons))
          keep(b) == IF rest.ok THEN [ok |-> TRUE, v |-> <<b>> \o rest.v]
                     ELSE rest
          skip == rest
          KeyError(k, line) == [ok |-> FALSE, exc |-> "KeyError",
                                msg |-> "'" \o k \o "'", line |-> line]
      IN IF "type" \notin DOMAIN btn THEN KeyError("type", 318)
         ELSE IF btn["type"] = "QUICK_REPLY" THEN
              IF "text" \notin DOMAIN btn THEN KeyError("text", 321)
              ELSE keep(JObj(<< <<"type", JStr("QUICK_REPLY")>>,
                                <<"text", JStr(btn["text"])>> >>))
         ELSE IF btn["type"] = "URL" THEN
              IF "text" \notin DOMAIN btn THEN KeyError("text", 326)
              ELSE IF "url" \notin DOMAIN btn THEN KeyError("url", 327)
              ELSE keep(JObj(<< <<"type", JStr("URL")>>,
                                <<"text", JStr(btn["text"])>>,
                                <<"url", JStr(btn["url"])>> >>))
         ELSE skip

HeaderComponent(arguments) ==
    IF ArgGiven(arguments, "header_text")
    THEN << JObj(<< <<"type", JStr("HEADER")>>, <<"format", JStr("TEXT")>>,
                    <<"text", JStr(arguments["header_text"])>> >>) >>
    ELSE <<>>

BodyComponent(arguments) ==
    << JObj(<< <<"type", JStr("BODY")>>,
               <<"text", JStr(arguments["body_text"])>>,
               <<"example",
                 JObj(<< <<"body_text",
                           JList(<<JStrList(arguments["body_examples"])>>)>> >>)>>
            >>) >>

FooterComponent(arguments) ==
    IF ArgGiven(arguments, "footer_text")
    THEN << JObj(<< <<"type", JStr("FOOTER")>>,
                    <<"text", JStr(arguments["footer_text"])>> >>) >>
    ELSE <<>>

\* the BUTTONS component for a converted button list
ButtonsComponent(converted) ==
    << JObj(<< <<"type", JStr("BUTTONS")>>, <<"buttons", JList(converted)>> >>) >>

\* mutant of TemplateComponents: the footer is appended before the body
TemplateComponentsFooterFirst(arguments) ==
    LET btns == IF ArgGiven(arguments, "buttons")
                THEN BuildButtons(arguments["buttons"])
                ELSE [ok |-> TRUE, v |-> <<>>]
    IN IF ~btns.ok THEN btns
       ELSE [ok |-> TRUE,
             v |-> HeaderComponent(arguments)
                   \o FooterComponent(arguments)
                   \o BodyComponent(arguments)
                   \o (IF ArgGiven(arguments, "buttons")
                       THEN ButtonsComponent(btns.v) ELSE <<>>)]

\* components as create_template appends them, or the builder's exception
TemplateComponents(arguments) ==
    LET btns == IF ArgGiven(arguments, "buttons")
                THEN BuildButtons(arguments["buttons"])
                ELSE [ok |-> TRUE, v |-> <<>>]
    IN IF ~btns.ok THEN btns
       ELSE [ok |-> TRUE,
             v |-> HeaderComponent(arguments)
                   \o BodyComponent(arguments)
                   \o FooterComponent(arguments)
                   \o (IF ArgGiven(arguments, "buttons")
                       THEN ButtonsComponent(btns.v) ELSE <<>>)]

\* the except clause of create_template, handling e
CreateTemplateExcept(e) ==
    Returns("Exception creating template: " \o e.msg \o "\n" \o Traceback(e))

(***************************************************************************)
(* send_template_message: the components builder (lines 381-393).          *)
(***************************************************************************)
TextParameters(values) ==
    JList([i \in DOMAIN values |->
             JObj(<< <<"type", JStr("text")>>, <<"text", JStr(values[i])>> >>)])

\* mutant of MessageComponents: the body component is appended first
MessageComponentsBodyFirst(arguments) ==
    (IF ArgGiven(arguments, "body_parameters")
     THEN << JObj(<< <<"type", JStr("body")>>,
                     <<"parameters",
                       TextParameters(arguments["body_parameters"])>> >>) >>
     ELSE <<>>)
    \o
    (IF ArgGiven(arguments, "header_parameters")
     THEN << JObj(<< <<"type", JStr("header")>>,
                     <<"parameters",
                       TextParameters(arguments["header_parameters"])>> >>) >>
     ELSE <<>>)

MessageComponents(arguments) ==
    (IF ArgGiven(arguments, "header_parameters")
     THEN << JObj(<< <<"type", JStr("header")>>,
                     <<"parameters",
                       TextParameters(arguments["header_parameters"])>> >>) >>
     ELSE <<>>)
    \o
    (IF ArgGiven(arguments, "body_parameters")
     THEN << JObj(<< <<"type", JStr("body")>>,
                     <<"parameters",
                       TextParameters(arguments["body_parameters"])>> >>) >>
     ELSE <<>>)

(***************************************************************************)
(* call_tool from its entry to its await (lines 257-259, 277-283, 288-339, *)
(* 355-357, 362-364, 367-369, 380-407, 414-425, 432-441, 444).             *)
(***************************************************************************)
CatalogTools ==
    {"list_templates", "get_template", "create_template", "delete_template",
     "get_account_info", "get_phone_numbers", "send_template_message",
     "send_text_message", "get_analytics"}

TemplateFields == "name,status,category,language,components,quality_score"

\* mutant of UnknownTool: the fallback raises instead of returning a notice
UnknownToolRaises(name) == Raises("ValueError", "Unknown tool: " \o name)

\* the fallback after the chain of name comparisons
UnknownTool(name) == Returns("Unknown tool: " \o name)

\* the arguments of the handler's make_request call; for create_template
\* the builder's exception when the components cannot be built
RequestArgs(cfg, name, arguments) ==
    CASE name = "list_templates" ->
           [ok |-> TRUE, method |-> "GET",
            endpoint |-> cfg.WABA_ID \o "/message_templates",
            data |-> JObj(<< <<"fields", JStr(TemplateFields)>>,
                             <<"limit", JInt(50)>> >>)]
      [] name = "get_template" ->
           IF ArgGiven(arguments, "template_id")
           THEN [ok |-> TRUE, method |-> "GET",
                 endpoint |-> arguments["template_id"],
                 data |-> JObj(<< <<"fields", JStr(TemplateFields)>> >>)]
           ELSE [ok |-> TRUE, method |-> "GET",
                 endpoint |-> cfg.WABA_ID \o "/message_templates",
                 data |-> JObj(<< <<"fields",
                                    JStr("name,status,category,language,components")>>,
                                  <<"name",
                                    IF "template_name" \in DOMAIN arguments
                                    THEN JStr(arguments["template_name"])
                                    ELSE None>> >>)]
      [] name = "create_template" ->
           LET components == TemplateComponents(arguments)
           IN IF ~components.ok THEN components
              ELSE [ok |-> TRUE, method |-> "POST",
                    endpoint |-> cfg.WABA_ID \o "/message_templates",
                    data |-> JObj(<< <<"name", JStr(arguments["name"])>>,
                                     <<"category", JStr(arguments["category"])>>,
                                     <<"language",
                                       JStr(ArgOr(arguments, "language", "es_CL"))>>,
                                     <<"components", JList(components.v)>> >>)]
      [] name = "delete_template" ->
           [ok |-> TRUE, method |-> "DELETE",
            endpoint |-> cfg.WABA_ID \o "/message_templates",
            data |-> JObj(<< <<"name", JStr(arguments["template_name"])>> >>)]
      [] name = "get_account_info" ->
           [ok |-> TRUE, method |-> "GET", endpoint |-> cfg.WABA_ID,
            data |-> JObj(<< <<"fields",
                               JStr("id,name,currency,timezone_id,message_template_namespace,account_review_status,business_verification_status")>> >>)]
      [] name = "get_phone_numbers" ->
           [ok |-> TRUE, method |-> "GET",
            endpoint |-> cfg.WABA_ID \o "/phone_numbers",
            data |-> JObj(<< <<"fields",
                               JStr("id,display_phone_number,verified_name,quality_rating,messaging_limit_tier,status")>> >>)]
      [] name = "send_template_message" ->
           [ok |-> TRUE, method |-> "POST",
            endpoint |-> cfg.PHONE_NUMBER_ID \o "/messages",
            data |-> JObj(<< <<"messaging_product", JStr("whatsapp")>>,
                             <<"recipient_type", JStr("individual")>>,
                             <<"to", JStr(arguments["to"])>>,
                             <<"type", JStr("template")>>,
                             <<"template",
                               JObj(<< <<"name", JStr(arguments["template_name"])>>,
                                       <<"language",
                                         JObj(<< <<"code",
                                                   JStr(ArgOr(arguments, "language",
                                                              "es_CL"))>> >>)>>,
                                       <<"components",
                                         JList(MessageComponents(arguments))>> >>)>>
                          >>)]
      [] name = "send_text_message" ->
           [ok |-> TRUE, method |-> "POST",
            endpoint |-> cfg.PHONE_NUMBER_ID \o "/messages",
            data |-> JObj(<< <<"messaging_product", JStr("whatsapp")>>,
                             <<"recipient_type", JStr("individual")>>,
                             <<"to", JStr(arguments["to"])>>,
                             <<"type", JStr("text")>>,
                             <<"text",
                               JObj(<< <<"body", JStr(arguments["message"])>> >>)>>
                          >>)]
      [] name = "get_analytics" ->
           [ok |-> TRUE, method |-> "GET", endpoint |-> cfg.WABA_ID,
            data |-> JObj(<< <<"fields",
                               JStr("conversation_analytics.start(start_date).end(end_date).granularity(DAILY).dimensions(conversation_type,conversation_direction)")>> >>
                          \o (IF ArgGiven(arguments, "start_date")
                              THEN << <<"start", JStr(arguments["start_date"])>> >>
                              ELSE <<>>)
                          \o (IF ArgGiven(arguments, "end_date")
                              THEN << <<"end", JStr(arguments["end_date"])>> >>
                              ELSE <<>>))]

\* call_tool up to its suspension: [kind |-> "await", request |-> r] when it
\* is suspended in make_request, else the outcome it ends with at once
call_tool_begin(cfg, name, arguments) ==
    IF name \notin CatalogTools THEN UnknownTool(name)
    ELSE LET a == RequestArgs(cfg, name, arguments)
         IN IF ~a.ok
            THEN CreateTemplateExcept(
                    Raised(a.exc, a.msg, ServerFrame(cfg.file, a.line), ""))
            ELSE LET r == make_request(cfg, a.method, a.endpoint, a.data)
                 IN IF r.kind = "sent"
                    THEN [kind |-> "await", request |-> r.request]
                    ELSE IF name = "create_template"
                         THEN CreateTemplateExcept(
                                 Raised(r.exc, r.msg,
                                        ServerFrame(cfg.file, 339)
                                        \o ServerFrame(cfg.file, r.line), ""))
                         ELSE Raises(r.exc, r.msg)

(***************************************************************************)
(* call_tool from the response of make_request to its return.  result is   *)
(* the parsed JSON object (make_request is declared to return a dict); a   *)
(* "data" or "messages" value is a list of objects.                        *)
(***************************************************************************)
\* one table row of list_templates (line 272), for an entry that has a name
TemplateRow(t) ==
    "| " \o PyStr(Get(t, "name"))
    \o " | " \o PyStr(GetOr(t, "category", JStr("N/A")))
    \o " | " \o PyStr(GetOr(t, "status", JStr("N/A")))
    \o " | " \o PyStr(GetOr(t, "language", JStr("N/A"))) \o " |\n"

\* the two list comprehensions of list_templates (lines 262-266)
FilterTemplates(arguments, data) ==
    LET byStatus ==
          IF ArgGiven(arguments, "status")
          THEN SelectSeq(data, LAMBDA t :
                 GetOr(t, "status", None) = JStr(arguments["status"]))
          ELSE data
    IN IF ArgGiven(arguments, "category")
       THEN SelectSeq(byStatus, LAMBDA t :
              GetOr(t, "category", None) = JStr(arguments["category"]))
       ELSE byStatus

TableHead ==
    "## WhatsApp Templates\n\n"
    \o "| Name | Category | Status | Language |\n"
    \o "|------|----------|--------|----------|\n"

TableTotal(n) == "\n**Total: " \o ToString(n) \o " templates**"

\* lines 261-275
ListTemplatesResult(arguments, result) ==
    IF HasKey(result, "data")
    THEN LET templates == FilterTemplates(arguments, Get(result, "data").v)
         IN IF \E i \in DOMAIN templates : ~HasKey(templates[i], "name")
            THEN Raises("KeyError", "'name'")
            ELSE Returns(TableHead
                         \o JoinStr([i \in DOMAIN templates |->
                                       TemplateRow(templates[i])], "")
                         \o TableTotal(Len(templates)))
    ELSE Returns("Error: " \o Dumps(result, 0, TRUE))

\* lines 278-286
GetTemplateResult(arguments, result) ==
    LET shown == IF /\ ~ArgGiven(arguments, "template_id")
                    /\ HasKey(result, "data")
                    /\ Truthy(Get(result, "data"))
                 THEN Get(result, "data").v[1]
                 ELSE result
    IN Returns(Dumps(shown, 2, FALSE))

\* lines 342-349
CreateTemplateResult(arguments, result) ==
    IF HasKey(result, "id")
    THEN Returns("Template created successfully!\n\n- **ID**: "
                 \o PyStr(Get(result, "id"))
                 \o "\n- **Status**: "
                 \o PyStr(GetOr(result, "status", JStr("PENDING")))
                 \o "\n- **Category**: "
                 \o PyStr(GetOr(result, "category", JStr(arguments["category"]))))
    ELSE Returns("Error creating template: " \o Dumps(result, 2, TRUE))

\* mutant of DeleteTemplateResult: result["success"] in place of
\* result.get("success")
DeleteTemplateResultSubscript(arguments, result) ==
    IF ~HasKey(result, "success") THEN Raises("KeyError", "'success'")
    ELSE IF Truthy(Get(result, "success"))
    THEN Returns("Template '" \o arguments["template_name"]
                 \o "' deleted successfully")
    ELSE Returns("Error: " \o Dumps(result, 0, TRUE))

\* lines 358-360
DeleteTemplateResult(arguments, result) ==
    IF Truthy(GetOr(result, "success", None))
    THEN Returns("Template '" \o arguments["template_name"]
                 \o "' deleted successfully")
    ELSE Returns("Error: " \o Dumps(result, 0, TRUE))

\* the Markdown code fence of lines 365 and 442: three grave accents, a
\* character that a TLA+ string cannot hold, written here as three tildes
Fence == "~~~"

\* line 365
AccountInfoResult(result) ==
    Returns("## WABA Account Info\n\n" \o Fence \o "json\n" \o Dumps(result, 2, TRUE)
            \o "\n" \o Fence)

\* lines 372-376
PhoneLines(phone) ==
    "- **" \o PyStr(GetOr(phone, "display_phone_number", None))
    \o "** (" \o PyStr(GetOr(phone, "verified_name", None)) \o ")\n"
    \o "  - Quality: " \o PyStr(GetOr(phone, "quality_rating", JStr("N/A"))) \o "\n"
    \o "  - Limit: " \o PyStr(GetOr(phone, "messaging_limit_tier", JStr("N/A")))
    \o "\n"
    \o "  - ID: " \o PyStr(GetOr(phone, "id", None)) \o "\n\n"

\* lines 370-378
PhoneNumbersResult(result) ==
    IF HasKey(result, "data")
    THEN LET data == Get(result, "data").v
         IN Returns("## Phone Numbers\n\n"
                    \o JoinStr([i \in DOMAIN data |-> PhoneLines(data[i])], ""))
    ELSE Returns("Error: " \o Dumps(result, 0, TRUE))

\* lines 409-412 and 427-430: success names the text's first line
SendResult(arguments, result, success) ==
    IF HasKey(result, "messages")
    THEN LET messages == Get(result, "messages").v
         IN IF Len(messages) = 0
            THEN Raises("IndexError", "list index out of range")
            ELSE IF ~HasKey(messages[1], "id")
            THEN Raises("KeyError", "'id'")
            ELSE Returns(success \o "\n\n- **Message ID**: "
                         \o PyStr(Get(messages[1], "id"))
                         \o "\n- **To**: " \o arguments["to"])
    ELSE Returns("Error sending message: " \o Dumps(result, 2, TRUE))

\* line 442
AnalyticsResult(result) ==
    Returns("## Analytics\n\n" \o Fence \o "json\n" \o Dumps(result, 2, TRUE)
            \o "\n" \o Fence)

\* call_tool resumed with the parsed response of its request
call_tool_resume(name, arguments, result) ==
    CASE name = "list_templates" -> ListTemplatesResult(arguments, result)
      [] name = "get_template" -> GetTemplateResult(arguments, result)
      [] name = "create_template" -> CreateTemplateResult(arguments, result)
      [] name = "delete_template" -> DeleteTemplateResult(arguments, result)
      [] name = "get_account_info" -> AccountInfoResult(result)
      [] name = "get_phone_numbers" -> PhoneNumbersResult(result)
      [] name = "send_template_message" ->
           SendResult(arguments, result, "Message sent successfully!")
      [] name = "send_text_message" ->
           SendResult(arguments, result, "Text message sent!")
      [] name = "get_analytics" -> AnalyticsResult(result)

\* the line of make_request that a fault of the HTTP call passes: the
\* client call of the method, or the parse of the body
FaultLine(method, at) ==
    IF at = "json" THEN 62
    ELSE CASE method = "GET" -> 54
           [] method = "POST" -> 56
           [] method = "DELETE" -> 58

\* the stack entry of client.post of httpx 0.28.1, which line 56 enters
HttpxPostFrame ==
    Frame("/usr/local/lib/python3.11/site-packages/httpx/_client.py", 1859,
          "post", "return await self.request(", 7, 0, 19)

\* call_tool resumed with an exception raised inside make_request (the
\* connection failed, or response.json() found no JSON): only the
\* create_template branch has an except clause (lines 289, 350-353); the
\* exception reaches it through line 339, the line of make_request and,
\* when the client call raised it, client.post
call_tool_fault(cfg, name, fault) ==
    IF name = "create_template"
    THEN CreateTemplateExcept(
            Raised(fault.exc, fault.msg,
                   ServerFrame(cfg.file, 339)
                   \o ServerFrame(cfg.file, FaultLine("POST", fault.at))
                   \o (IF fault.at = "send" THEN HttpxPostFrame ELSE "")
                   \o fault.tb,
                   fault.chain))
    ELSE Raises(fault.exc, fault.msg)

(***************************************************************************)
(* Inputs: schema-valid arguments (the inputSchema of each Tool, lines     *)
(* 69-249) and JSON objects the Graph API answers with; some hold strings  *)
(* that json.dumps escapes and values that an f-string prints by repr.     *)
(* The strings of the modelled responses are ASCII.                        *)
(***************************************************************************)
\* no keys: an empty arguments dict
NoArgs == [k \in {} |-> ""]

\* the dicts that hold key k with a value of values, and the one without it
Optional(k, values) == {NoArgs} \cup {k :> v : v \in values}

\* the sequences over S of length 0..n
SeqsUpTo(S, n) == UNION {[1..k -> S] : k \in 0..n}

Obj2(k1, v1, k2, v2) == JObj(<< <<k1, v1>>, <<k2, v2>> >>)

ErrorDoc ==
    JObj(<< <<"error",
              JObj(<< <<"message", JStr("Invalid parameter \"name\"")>>,
                      <<"type", JStr("OAuthException")>>,
                      <<"code", JInt(100)>> >>)>> >>)

\* answers any request may get: an error document, an empty object
CommonResponses == {ErrorDoc, JObj(<<>>)}

\* entries of a message_templates "data" array; the last two lack fields
TemplateEntries ==
    { JObj(<< <<"name", JStr("welcome_msg")>>, <<"status", JStr("APPROVED")>>,
              <<"category", JStr("UTILITY")>>, <<"language", JStr("es_CL")>> >>),
      JObj(<< <<"name", JStr("promo")>>, <<"status", JStr("PENDING")>>,
              <<"category", JStr("MARKETING")>>, <<"language", JStr("en_US")>> >>),
      JObj(<< <<"name", JStr("otp")>>, <<"status", JStr("APPROVED")>>,
              <<"category", JStr("MARKETING")>> >>),
      JObj(<< <<"status", JStr("APPROVED")>>, <<"category", JStr("UTILITY")>> >>),
      JObj(<< <<"name", JStr("draft")>> >>) }

DataDocs == {JObj(<< <<"data", JList(d)>> >>) : d \in SeqsUpTo(TemplateEntries, MaxData)}

PhoneEntries ==
    { JObj(<< <<"id", JStr("2002")>>,
              <<"display_phone_number", JStr("+56 9 1234 5678")>>,
              <<"verified_name", JStr("SMate")>>,
              <<"quality_rating", JStr("GREEN")>>,
              <<"messaging_limit_tier", JStr("TIER_1K")>> >>),
      JObj(<< <<"id", JStr("2003")>> >>),
      JObj(<< <<"id", JInt(2004)>>,
              <<"display_phone_number", JNull>>,
              <<"verified_name", JStr("SMate \"O'Higgins\"")>>,
              <<"quality_rating", JObj(<< <<"score", JStr("GREEN")>> >>)>>,
              <<"messaging_limit_tier",
                JList(<<JStr("it's"), JFloat("1.5"), JBool(TRUE)>>)>> >>) }

MessagesDocs ==
    { Obj2("messaging_product", JStr("whatsapp"),
           "messages", JList(<< JObj(<< <<"id", JStr("wamid.A1")>> >>) >>)),
      JObj(<< <<"messages", JList(<<>>)>> >>),
      JObj(<< <<"messages", JList(<< JObj(<<>>) >>)>> >>) }

ResponsesFor(name) ==
    CommonResponses \cup
    CASE name \in {"list_templates", "get_template"} -> DataDocs
      [] name = "create_template" ->
           { JObj(<< <<"id", JStr("7001")>>, <<"status", JStr("APPROVED")>>,
                     <<"category", JStr("MARKETING")>> >>),
             JObj(<< <<"id", JStr("7001")>> >>) }
      [] name = "delete_template" ->
           { JObj(<< <<"success", JBool(TRUE)>> >>),
             JObj(<< <<"success", JBool(FALSE)>> >>) }
      [] name = "get_phone_numbers" ->
           {JObj(<< <<"data", JList(d)>> >>) : d \in SeqsUpTo(PhoneEntries, 1)}
      [] name \in {"send_template_message", "send_text_message"} -> MessagesDocs
      [] OTHER ->
           { Obj2("id", JStr("1001"), "name", JStr("SMate")),
             Obj2("name", JStr("S\\Mate\n"), "rate", JFloat("0.5")) }

\* the buttons a call may carry: the schema requires no key of an item; the
\* PHONE_NUMBER item has a type outside the schema's enum, the case the loop
\* of create_template passes over
ButtonItems ==
    { [type |-> "QUICK_REPLY", text |-> "Yes"],
      [type |-> "URL", text |-> "Open", url |-> "https://smate.cl"],
      [type |-> "PHONE_NUMBER", text |-> "Call"],
      [type |-> "URL", text |-> "Open"],
      [text |-> "Yes"] }

ParamValues == {"Ana", "42"}

\* the arguments of create_template with a language of languages and
\* buttons of buttons
CreateArguments(languages, buttons) ==
    {[name |-> "welcome_msg", category |-> "UTILITY",
      body_text |-> "Hello {{1}}", body_examples |-> <<"Ana">>]
     @@ l @@ h @@ f @@ b :
       l \in languages,
       h \in Optional("header_text", {"", "Hi"}),
       f \in Optional("footer_text", {"", "Bye"}),
       b \in buttons}

ArgumentsFor(name) ==
    CASE name = "list_templates" ->
           {a @@ b : a \in Optional("status", {"APPROVED", "PENDING"}),
                     b \in Optional("category", {"UTILITY", "MARKETING"})}
      [] name = "get_template" ->
           {a @@ b : a \in Optional("template_id", {"7001"}),
                     b \in Optional("template_name", {"welcome_msg"})}
      [] name = "create_template" ->
           \* the language varies over the calls of at most one button
           CreateArguments(Optional("language", {"en_US"}),
                           Optional("buttons", SeqsUpTo(ButtonItems, 1)))
           \cup CreateArguments({NoArgs},
                                Optional("buttons",
                                         SeqsUpTo(ButtonItems, MaxButtons)))
      [] name = "delete_template" ->
           {[template_name |-> n] : n \in {"welcome_msg", "promo"}}
      [] name = "send_template_message" ->
           {[to |-> "56912345678", template_name |-> "welcome_msg",
             body_parameters |-> bp] @@ l @@ hp :
              bp \in SeqsUpTo(ParamValues, MaxParams),
              l \in Optional("language", {"en_US"}),
              hp \in Optional("header_parameters",
                              SeqsUpTo(ParamValues, MaxParams))}
      [] name = "send_text_message" ->
           {[to |-> "56912345678", message |-> "Hi"]}
      [] name = "get_analytics" ->
           {a @@ b : a \in Optional("start_date", {"1700000000"}),
                     b \in Optional("end_date", {"1700086400"})}
      [] OTHER -> {NoArgs}

\* names call_tool may be given that are not in the catalog
UnknownNames == {"foo", "list_template"}

ToolNames == CatalogTools \cup UnknownNames

\* the stack entries of the libraries under make_request, as an
\* installation of httpx 0.28.1 and httpcore on Python 3.11 prints them:
\* from AsyncClient.request, which get, post and delete all call, down to
\* the raise of the exception httpx maps the transport's exception to
HttpxSendFrames ==
    LET client == "/usr/local/lib/python3.11/site-packages/httpx/_client.py"
        transport ==
            "/usr/local/lib/python3.11/site-packages/httpx/_transports/default.py"
    IN  Frame(client, 1540, "request",
              "return await self.send(request, auth=auth, follow_redirects=follow_redirects)",
              7, 0, 70)
        \o Frame(client, 1629, "send",
                 "response = await self._send_handling_auth(", 11, 0, 31)
        \o Frame(client, 1657, "_send_handling_auth",
                 "response = await self._send_handling_redirects(", 11, 0, 36)
        \o Frame(client, 1694, "_send_handling_redirects",
                 "response = await self._send_single_request(request)",
                 11, 0, 40)
        \o Frame(client, 1730, "_send_single_request",
                 "response = await transport.handle_async_request(request)",
                 11, 0, 45)
        \o Frame(transport, 393, "handle_async_request",
                 "with map_httpcore_exceptions():", 0, 0, 0)
        \o Frame("/usr/local/lib/python3.11/contextlib.py", 158, "__exit__",
                 "self.gen.throw(typ, value, traceback)", 0, 0, 0)
        \o Frame(transport, 118, "map_httpcore_exceptions",
                 "raise mapped_exc(message) from exc", 0, 0, 0)

HttpxJsonFrames ==
    Frame("/usr/local/lib/python3.11/site-packages/httpx/_models.py", 832,
          "json", "return jsonlib.loads(self.content, **kwargs)", 7, 0, 37)
    \o Frame("/usr/local/lib/python3.11/json/__init__.py", 346, "loads",
             "return _default_decoder.decode(s)", 7, 0, 26)
    \o Frame("/usr/local/lib/python3.11/json/decoder.py", 337, "decode",
             "obj, end = self.raw_decode(s, idx=_w(s, 0).end())", 11, 0, 38)
    \o Frame("/usr/local/lib/python3.11/json/decoder.py", 355, "raw_decode",
             "raise JSONDecodeError(\"Expecting value\", s, err.value) from None",
             0, 0, 0)

\* what traceback prints of the exception that httpx.ConnectError was
\* raised from: the httpcore.ConnectError of a refused connection, from
\* the transport of httpx down to the socket backend of httpcore
ConnectErrorCause ==
    LET transport ==
            "/usr/local/lib/python3.11/site-packages/httpx/_transports/default.py"
        httpcore == "/usr/local/lib/python3.11/site-packages/httpcore/"
    IN  "Traceback (most recent call last):\n"
        \o Frame(transport, 101, "map_httpcore_exceptions", "yield", 0, 0, 0)
        \o Frame(transport, 394, "handle_async_request",
                 "resp = await self._pool.handle_async_request(req)", 7, 0, 42)
        \o Frame(httpcore \o "_async/connection_pool.py", 256,
                 "handle_async_request", "raise exc from None", 0, 0, 0)
        \o Frame(httpcore \o "_async/connection_pool.py", 236,
                 "handle_async_request",
                 "response = await connection.handle_async_request(", 11, 0, 38)
        \o Frame(httpcore \o "_async/connection.py", 101,
                 "handle_async_request", "raise exc", 0, 0, 0)
        \o Frame(httpcore \o "_async/connection.py", 78,
                 "handle_async_request",
                 "stream = await self._connect(request)", 9, 0, 28)
        \o Frame(httpcore \o "_async/connection.py", 124, "_connect",
                 "stream = await self._network_backend.connect_tcp(**kwargs)",
                 9, 0, 49)
        \o Frame(httpcore \o "_backends/auto.py", 31, "connect_tcp",
                 "return await self._backend.connect_tcp(", 7, 0, 32)
        \o Frame(httpcore \o "_backends/anyio.py", 113, "connect_tcp",
                 "with map_exceptions(exc_map):", 0, 0, 0)
        \o Frame("/usr/local/lib/python3.11/contextlib.py", 158, "__exit__",
                 "self.gen.throw(typ, value, traceback)", 0, 0, 0)
        \o Frame(httpcore \o "_exceptions.py", 14, "map_exceptions",
                 "raise to_exc(exc) from exc", 0, 0, 0)
        \o "httpcore.ConnectError: All connection attempts failed\n"
        \o "\nThe above exception was the direct cause of the following exception:\n\n"

\* exceptions of the HTTP call: no connection (raised by the client call),
\* or a body that is not JSON (raised by response.json()). tb holds the
\* stack entries below the method of the client or below response.json
TransportFaults ==
    { [exc |-> "httpx.ConnectError", msg |-> "All connection attempts failed",
       at |-> "send", tb |-> HttpxSendFrames, chain |-> ConnectErrorCause],
      [exc |-> "json.decoder.JSONDecodeError",
       msg |-> "Expecting value: line 1 column 1 (char 0)",
       at |-> "json", tb |-> HttpxJsonFrames, chain |-> ""] }

\* META_ACCESS_TOKEN, META_WABA_ID and META_PHONE_NUMBER_ID of the
\* environment; main serves only with the first two set (lines 482-487).
\* file is the path the module was loaded from, which a traceback names.
Configs ==
    {[META_ACCESS_TOKEN |-> "EAAG-token", WABA_ID |-> "1001",
      PHONE_NUMBER_ID |-> p,
      file |-> "/srv/smate/src/mcp-servers/meta-whatsapp/server.py"] :
        p \in {"2002", ""}}

(***************************************************************************)
(* The state machine: each invocation of call_tool is idle, suspended in   *)
(* its HTTP call ("awaiting"), suspended in the exit of the "async with"   *)
(* block of make_request with the reply at hand ("closing"), or ended with *)
(* an outcome ("done").                                                    *)
(***************************************************************************)
Calls == {"c1", "c2"}

NoReply == [kind |-> "none"]

IdleCall ==
    [pc |-> "idle", name |-> "", arguments |-> NoArgs, requests |-> <<>>,
     reply |-> NoReply, outcome |-> NoOutcome]

Init == /\ config \in Configs
        /\ calls = [c \in Calls |-> IdleCall]

\* the transport invokes call_tool(name, arguments), which runs to its await
\* or, without one, to its end
Invoke(c, name, arguments) ==
    /\ calls[c].pc = "idle"
    /\ LET b == call_tool_begin(config, name, arguments)
       IN calls' = [calls EXCEPT ![c] =
            IF b.kind = "await"
            THEN [pc |-> "awaiting", name |-> name, arguments |-> arguments,
                  requests |-> Append(calls[c].requests, b.request),
                  reply |-> NoReply, outcome |-> NoOutcome]
            ELSE [pc |-> "done", name |-> name, arguments |-> arguments,
                  requests |-> calls[c].requests,
                  reply |-> NoReply, outcome |-> b]]
    /\ UNCHANGED config

\* the HTTP call returns and response.json() parses the body as result
\* (lines 54-62); make_request then awaits the exit of its "async with"
\* block (line 52)
Respond(c, result) ==
    /\ calls[c].pc = "awaiting"
    /\ calls' = [calls EXCEPT ![c] =
         [calls[c] EXCEPT
            !.pc = "closing",
            !.reply = [kind |-> "json", doc |-> result]]]
    /\ UNCHANGED config

\* mutant of TransportFault: a failed request is issued again
TransportFaultRetry(c, fault) ==
    /\ calls[c].pc = "awaiting"
    /\ Len(calls[c].requests) < 2
    /\ calls' = [calls EXCEPT ![c] =
         [calls[c] EXCEPT
            !.requests = Append(calls[c].requests, calls[c].requests[1])]]
    /\ UNCHANGED config

\* the HTTP call or response.json() raises; the exception leaves the
\* "async with" block of make_request, whose exit is awaited
TransportFault(c, fault) ==
    /\ calls[c].pc = "awaiting"
    /\ calls' = [calls EXCEPT ![c] =
         [calls[c] EXCEPT
            !.pc = "closing",
            !.reply = [kind |-> "fault", fault |-> fault]]]
    /\ UNCHANGED config

\* mutant of Resume: the arguments are kept in one module-level name, so
\* an invocation resumed while another of the same tool is in progress
\* formats its response with the other's arguments
ResumeSharedArguments(c) ==
    /\ calls[c].pc = "closing"
    /\ LET others == {d \in Calls \ {c} : /\ calls[d].pc # "idle"
                                           /\ calls[d].name = calls[c].name}
           arguments == IF others = {} THEN calls[c].arguments
                        ELSE calls[CHOOSE d \in others : TRUE].arguments
       IN calls' = [calls EXCEPT ![c] =
            [calls[c] EXCEPT
               !.pc = "done",
               !.outcome =
                  IF calls[c].reply.kind = "json"
                  THEN call_tool_resume(calls[c].name, arguments,
                                        calls[c].reply.doc)
                  ELSE call_tool_fault(config, calls[c].name,
                                       calls[c].reply.fault)]]
    /\ UNCHANGED config

\* the client is closed: make_request returns the parsed body to call_tool,
\* or its exception reaches call_tool, which runs to its end
Resume(c) ==
    /\ calls[c].pc = "closing"
    /\ calls' = [calls EXCEPT ![c] =
         [calls[c] EXCEPT
            !.pc = "done",
            !.outcome =
               IF calls[c].reply.kind = "json"
               THEN call_tool_resume(calls[c].name, calls[c].arguments,
                                     calls[c].reply.doc)
               ELSE call_tool_fault(config, calls[c].name,
                                    calls[c].reply.fault)]]
    /\ UNCHANGED config

\* the transport takes the outcome; the invocation's objects are dropped
Return(c) ==
    /\ calls[c].pc = "done"
    /\ calls' = [calls EXCEPT ![c] = IdleCall]
    /\ UNCHANGED config

(***************************************************************************)
(* SpecInputs: one invocation at a time, over every modelled argument      *)
(* dict and response of each tool.                                         *)
(***************************************************************************)
InvokeTool ==
    \E name \in ToolNames : \E arguments \in ArgumentsFor(name) :
       Invoke("c1", name, arguments)

ReceiveResponse ==
    \E result \in ResponsesFor(calls["c1"].name) : Respond("c1", result)

ReceiveFault == \E fault \in TransportFaults : TransportFault("c1", fault)

ResumeTool == Resume("c1")

ReturnOutcome == Return("c1")

NextInputs ==
    InvokeTool \/ ReceiveResponse \/ ReceiveFault \/ ResumeTool \/ ReturnOutcome

SpecInputs == Init /\ [][NextInputs]_vars

(***************************************************************************)
(* Spec: the transport lets invocations overlap.  Two invocations, each    *)
(* over a few argument dicts and responses of every tool, interleave at    *)
(* their suspensions.                                                      *)
(***************************************************************************)
CreateBase ==
    [name |-> "welcome_msg", category |-> "UTILITY",
     body_text |-> "Hello {{1}}", body_examples |-> <<"Ana">>]

SendBase ==
    [to |-> "56912345678", template_name |-> "welcome_msg",
     body_parameters |-> <<"Ana">>]

OverlapArgumentsFor(name) ==
    CASE name = "list_templates" -> {NoArgs, [status |-> "APPROVED"]}
      [] name = "get_template" ->
           {[template_name |-> "welcome_msg"], [template_id |-> "7001"]}
      [] name = "create_template" ->
           { CreateBase,
             [category |-> "MARKETING"] @@ CreateBase @@
               [header_text |-> "Hi", footer_text |-> "Bye",
                buttons |-> << [type |-> "QUICK_REPLY", text |-> "Yes"],
                               [type |-> "URL", text |-> "Open",
                                url |-> "https://smate.cl"] >>],
             CreateBase @@ [buttons |-> << [type |-> "URL", text |-> "Open"] >>] }
      [] name = "delete_template" ->
           {[template_name |-> n] : n \in {"welcome_msg", "promo"}}
      [] name = "send_template_message" ->
           {SendBase, SendBase @@ [header_parameters |-> <<"42">>]}
      [] name = "send_text_message" ->
           { [to |-> "56912345678", message |-> "Hi"],
             [to |-> "56987654321", message |-> "Hola"] }
      [] OTHER -> {NoArgs}

OverlapResponsesFor(name) ==
    {ErrorDoc} \cup
    CASE name \in {"list_templates", "get_template"} ->
           {d \in DataDocs : Len(Get(d, "data").v) = 1
                             /\ HasKey(Get(d, "data").v[1], "language")}
      [] name = "create_template" -> {JObj(<< <<"id", JStr("7001")>> >>)}
      [] name = "delete_template" -> {JObj(<< <<"success", JBool(TRUE)>> >>)}
      [] name = "get_phone_numbers" ->
           {JObj(<< <<"data", JList(<<>>)>> >>)}
      [] name \in {"send_template_message", "send_text_message"} ->
           {d \in MessagesDocs : Len(Get(d, "messages").v) = 0
                                 \/ HasKey(d, "messaging_product")}
      [] OTHER -> {Obj2("id", JStr("1001"), "name", JStr("SMate"))}

InvokeAny ==
    \E c \in Calls : \E name \in ToolNames :
       \E arguments \in OverlapArgumentsFor(name) : Invoke(c, name, arguments)

RespondAny ==
    \E c \in Calls : \E result \in OverlapResponsesFor(calls[c].name) :
       Respond(c, result)

FaultAny == \E c \in Calls : \E fault \in TransportFaults : TransportFault(c, fault)

ResumeAny == \E c \in Calls : Resume(c)

ReturnAny == \E c \in Calls : Return(c)

Next == InvokeAny \/ RespondAny \/ FaultAny \/ ResumeAny \/ ReturnAny

Spec == Init /\ [][Next]_vars

(***************************************************************************)
(* Properties.                                                             *)
(***************************************************************************)
\* sub occurs in text
Contains(text, sub) ==
    \E i \in 1..(Len(text) - Len(sub) + 1) :
       SubSeq(text, i, i + Len(sub) - 1) = sub

\* the outcome is a returned list of exactly one text block
IsTextResult(outcome) ==
    /\ outcome.kind = "return"
    /\ Len(outcome.value) = 1
    /\ outcome.value[1].type = "text"

Replied(c, kind) == calls[c].pc = "done" /\ calls[c].reply.kind = kind

\* C1: for each of the nine catalog tools, an invocation whose HTTP call
\* failed with a transport fault (no connection, a body that is not JSON)
\* ends by returning a text result; the fault does not leave call_tool.
C1_FaultNeverPropagates ==
    \A c \in Calls :
       (Replied(c, "fault") /\ calls[c].name \in CatalogTools)
          => IsTextResult(calls[c].outcome)

\* the key whose presence in the response means success, per operation
SuccessKey ==
    [list_templates |-> "data", get_phone_numbers |-> "data",
     create_template |-> "id", delete_template |-> "success",
     send_template_message |-> "messages", send_text_message |-> "messages"]

LacksSuccessKey(c) ==
    /\ Replied(c, "json")
    /\ calls[c].name \in DOMAIN SuccessKey
    /\ ~HasKey(calls[c].reply.doc, SuccessKey[calls[c].name])

\* C2: for every operation with a success key (data, id, success,
\* messages), when the JSON response lacks that key call_tool does not raise
\* and returns one text that contains the JSON serialization (compact or
\* indented) of the whole response.
C2_MissingKeyRendersResponse ==
    \A c \in Calls :
       LacksSuccessKey(c) =>
          /\ IsTextResult(calls[c].outcome)
          /\ \/ Contains(calls[c].outcome.value[1].text,
                         Dumps(calls[c].reply.doc, 0, TRUE))
             \/ Contains(calls[c].outcome.value[1].text,
                         Dumps(calls[c].reply.doc, 2, TRUE))

\* C2 witness: delete_template answered by an error document, which has no
\* "success" key, has returned its text
C2_Witness ==
    /\ LacksSuccessKey("c1")
    /\ calls["c1"].name = "delete_template"
    /\ calls["c1"].reply.doc = ErrorDoc
    /\ calls["c1"].outcome.kind = "return"

\* C3: formatting never fails: for every tool and every JSON document the
\* remote API answers with, also one whose success key is present with
\* unexpected content, call_tool returns a text result and does not raise.
C3_FormattingNeverFails ==
    \A c \in Calls : Replied(c, "json") => IsTextResult(calls[c].outcome)

\* the "type" of each component of a JSON list of components
ComponentTypes(components) ==
    [i \in DOMAIN components |-> Get(components[i], "type").v]

Count(seq, x) == Cardinality({i \in DOMAIN seq : seq[i] = x})

Occurs(seq, x) == \E i \in DOMAIN seq : seq[i] = x

\* the components of the create_template request that invocation c sent
SentTemplateTypes(c) ==
    ComponentTypes(Get(calls[c].requests[1].json, "components").v)

CreateSent(c) ==
    calls[c].name = "create_template" /\ Len(calls[c].requests) > 0

ComponentRank == [HEADER |-> 1, BODY |-> 2, FOOTER |-> 3, BUTTONS |-> 4]

\* C4: the components list a create_template call sends is in the order
\* HEADER, BODY, FOOTER, BUTTONS without duplicates; BODY is there exactly
\* once; HEADER, FOOTER and BUTTONS are there exactly when header_text,
\* footer_text and buttons are given with a non-empty value.
C4_ComponentOrder ==
    \A c \in Calls :
       CreateSent(c) =>
          LET types == SentTemplateTypes(c)
          IN /\ \A i \in DOMAIN types : types[i] \in DOMAIN ComponentRank
             /\ \A i, k \in DOMAIN types :
                   i < k => ComponentRank[types[i]] < ComponentRank[types[k]]
             /\ Count(types, "BODY") = 1
             /\ Occurs(types, "HEADER") <=> ArgGiven(calls[c].arguments, "header_text")
             /\ Occurs(types, "FOOTER") <=> ArgGiven(calls[c].arguments, "footer_text")
             /\ Occurs(types, "BUTTONS") <=> ArgGiven(calls[c].arguments, "buttons")

\* C4 witness: a create_template request with all four components
C4_Witness ==
    /\ CreateSent("c1")
    /\ SentTemplateTypes("c1") = <<"HEADER", "BODY", "FOOTER", "BUTTONS">>

\* the entries the claim expects as rows: status and category equal to the
\* arguments that are given
ExpectedEntries(arguments, data) ==
    SelectSeq(data, LAMBDA t :
       /\ "status" \in DOMAIN arguments
             => GetOr(t, "status", None) = JStr(arguments["status"])
       /\ "category" \in DOMAIN arguments
             => GetOr(t, "category", None) = JStr(arguments["category"]))

\* the table of the entries, each row printed with its four fields
ExpectedTable(entries) ==
    TableHead
    \o JoinStr([i \in DOMAIN entries |->
                  "| " \o PyStr(GetOr(entries[i], "name", None))
                  \o " | " \o PyStr(GetOr(entries[i], "category", JStr("N/A")))
                  \o " | " \o PyStr(GetOr(entries[i], "status", JStr("N/A")))
                  \o " | " \o PyStr(GetOr(entries[i], "language", JStr("N/A")))
                  \o " |\n"], "")
    \o "\n**Total: " \o ToString(Len(entries)) \o " templates**"

ListedData(c) ==
    /\ Replied(c, "json")
    /\ calls[c].name = "list_templates"
    /\ HasKey(calls[c].reply.doc, "data")

\* C5: for every list_templates response with a data array the rendered
\* rows are exactly the entries matching the given status and category
\* arguments, in their order, and the total is the number of rows.
C5_RowsAreFilteredEntries ==
    \A c \in Calls :
       ListedData(c) =>
          /\ IsTextResult(calls[c].outcome)
          /\ calls[c].outcome.value[1].text =
                ExpectedTable(ExpectedEntries(calls[c].arguments,
                                              Get(calls[c].reply.doc, "data").v))

\* what does hold of list_templates: the table is the one C5 describes
\* whenever call_tool returns, and it returns unless an entry that passes
\* the filters has no "name"
RowsAreFilteredEntriesWhenNamed ==
    \A c \in Calls :
       ListedData(c) =>
          LET entries == ExpectedEntries(calls[c].arguments,
                                         Get(calls[c].reply.doc, "data").v)
          IN IF \A i \in DOMAIN entries : HasKey(entries[i], "name")
             THEN /\ IsTextResult(calls[c].outcome)
                  /\ calls[c].outcome.value[1].text = ExpectedTable(entries)
             ELSE calls[c].outcome = Raises("KeyError", "'name'")

\* C6: the request of delete_template is a DELETE on
\* {WABA_ID}/message_templates whose query parameters carry the name given
\* in template_name.
C6_DeleteCarriesName ==
    \A c \in Calls :
       (calls[c].name = "delete_template" /\ calls[c].pc # "idle") =>
          /\ Len(calls[c].requests) = 1
          /\ LET r == calls[c].requests[1]
             IN /\ r.method = "DELETE"
                /\ r.url = BASE_URL \o "/" \o config.WABA_ID \o "/message_templates"
                /\ r.params # None
                /\ HasKey(r.params, "name")
                /\ Get(r.params, "name") = JStr(calls[c].arguments["template_name"])

\* C7: an invocation with a name outside the catalog is never suspended: it
\* has issued no request, raised nothing, and ended with one plain text
\* notice that names the unknown tool.
C7_UnknownToolNotice ==
    \A c \in Calls :
       (calls[c].pc # "idle" /\ calls[c].name \notin CatalogTools) =>
          /\ calls[c].pc = "done"
          /\ calls[c].requests = <<>>
          /\ calls[c].reply = NoReply
          /\ IsTextResult(calls[c].outcome)
          /\ Contains(calls[c].outcome.value[1].text, calls[c].name)

\* C7 witness: call_tool("foo", {}) has ended
C7_Witness ==
    /\ calls["c1"].pc = "done"
    /\ calls["c1"].name = "foo"
    /\ calls["c1"].outcome = Returns("Unknown tool: foo")

\* C8 as stated: every invocation of a catalog tool issues exactly one HTTP
\* request, never a second one, and has issued it when it ends.
C8_ExactlyOneRequest ==
    \A c \in Calls :
       /\ Len(calls[c].requests) <= 1
       /\ (calls[c].pc # "idle" /\ calls[c].name \in CatalogTools)
             => Len(calls[c].requests) = 1

\* create_template cannot build its components: a button lacks a key that
\* the loop reads
BuilderFails(c) ==
    /\ calls[c].name = "create_template"
    /\ ~TemplateComponents(calls[c].arguments).ok

\* C8 amended: an invocation of a catalog tool never issues a second request
\* (no retry after a response, a rejection or a fault); it issues exactly one
\* and ends with the reply to it, except that create_template issues none
\* and returns the exception text when its component builder raises.
C8_AtMostOneRequest ==
    \A c \in Calls :
       /\ Len(calls[c].requests) <= 1
       /\ (calls[c].pc # "idle" /\ calls[c].name \in CatalogTools) =>
             IF BuilderFails(c)
             THEN /\ calls[c].pc = "done"
                  /\ calls[c].requests = <<>>
                  /\ calls[c].reply = NoReply
                  /\ IsTextResult(calls[c].outcome)
             ELSE /\ Len(calls[c].requests) = 1
                  /\ calls[c].pc = "awaiting" <=> calls[c].reply = NoReply
                  /\ calls[c].pc = "done" <=> calls[c].outcome # NoOutcome

\* C8 witness: a catalog tool whose single request met a transport fault
\* has ended, one request issued
C8_Witness ==
    /\ Replied("c1", "fault")
    /\ calls["c1"].name = "send_text_message"
    /\ Len(calls["c1"].requests) = 1

\* the components of the send_template_message request of invocation c
SentMessageComponents(c) ==
    Get(Get(calls[c].requests[1].json, "template"), "components").v

MessageSent(c) ==
    calls[c].name = "send_template_message" /\ Len(calls[c].requests) > 0

\* the parameters of a component are the values, in order, each wrapped as
\* {type: text, text: value}
WrapsValues(component, values) ==
    LET ps == Get(component, "parameters").v
    IN /\ Len(ps) = Len(values)
       /\ \A i \in DOMAIN ps :
             ps[i] = Obj2("type", JStr("text"), "text", JStr(values[i]))

\* C9: the components of a send_template_message request hold a header
\* component exactly when header_parameters is non-empty and a body
\* component exactly when body_parameters is non-empty, the header first,
\* nothing else; each component's parameters are the input values in input
\* order, each wrapped as {type: text, text: value}.
C9_MessageComponents ==
    \A c \in Calls :
       MessageSent(c) =>
          LET comps == SentMessageComponents(c)
              types == ComponentTypes(comps)
              args == calls[c].arguments
          IN /\ \A i \in DOMAIN types : types[i] \in {"header", "body"}
             /\ Count(types, "header") <= 1 /\ Count(types, "body") <= 1
             /\ Occurs(types, "header") <=> ArgGiven(args, "header_parameters")
             /\ Occurs(types, "body") <=> ArgGiven(args, "body_parameters")
             /\ Len(types) = 2 => types = <<"header", "body">>
             /\ \A i \in DOMAIN comps :
                   WrapsValues(comps[i], args[types[i] \o "_parameters"])

\* C9 witness: a request with a header component of one parameter before a
\* body component of two distinct parameters
C9_Witness ==
    /\ MessageSent("c1")
    /\ ComponentTypes(SentMessageComponents("c1")) = <<"header", "body">>
    /\ calls["c1"].arguments["header_parameters"] = <<"42">>
    /\ calls["c1"].arguments["body_parameters"] = <<"Ana", "42">>

\* invocation c has sent and got what call_tool alone would send and
\* return for its name, its arguments and its reply
RunsAsAlone(c) ==
    LET name == calls[c].name
        arguments == calls[c].arguments
        alone == call_tool_begin(config, name, arguments)
    IN /\ IF alone.kind = "await"
          THEN calls[c].requests = <<alone.request>>
          ELSE calls[c].requests = <<>> /\ calls[c].outcome = alone
       /\ calls[c].pc \in {"awaiting", "closing"} => calls[c].outcome = NoOutcome
       /\ Replied(c, "json") =>
             calls[c].outcome = call_tool_resume(name, arguments, calls[c].reply.doc)
       /\ Replied(c, "fault") =>
             calls[c].outcome = call_tool_fault(config, name, calls[c].reply.fault)

\* the request of invocation c carries the arguments of c, and the text it
\* has returned for a successful reply shows them: the rows that pass its
\* own filters, the template name, the recipient, the category it asked for
ShowsOwnArguments(c) ==
    LET name == calls[c].name
        arguments == calls[c].arguments
        sent == calls[c].requests
        doc == calls[c].reply.doc
        text == calls[c].outcome.value[1].text
    IN /\ (name \in {"send_template_message", "send_text_message"}
             /\ Len(sent) > 0)
            => Get(sent[1].json, "to") = JStr(arguments["to"])
       /\ (name = "send_text_message" /\ Len(sent) > 0)
            => Get(Get(sent[1].json, "text"), "body") = JStr(arguments["message"])
       /\ (name = "create_template" /\ Len(sent) > 0)
            => Get(sent[1].json, "category") = JStr(arguments["category"])
       /\ (name = "get_template" /\ Len(sent) > 0)
            => IF "template_id" \in DOMAIN arguments
               THEN sent[1].url = BASE_URL \o "/" \o arguments["template_id"]
               ELSE Get(sent[1].params, "name") = JStr(arguments["template_name"])
       /\ (Replied(c, "json") /\ name = "list_templates" /\ HasKey(doc, "data"))
            => LET entries == ExpectedEntries(arguments, Get(doc, "data").v)
               IN (\A i \in DOMAIN entries : HasKey(entries[i], "name"))
                    => /\ IsTextResult(calls[c].outcome)
                       /\ text = ExpectedTable(entries)
       /\ (Replied(c, "json") /\ name = "delete_template"
             /\ doc = JObj(<< <<"success", JBool(TRUE)>> >>))
            => /\ IsTextResult(calls[c].outcome)
               /\ Contains(text, "'" \o arguments["template_name"] \o "'")
       /\ (Replied(c, "json") /\ name = "send_text_message"
             /\ HasKey(doc, "messaging_product"))
            => /\ IsTextResult(calls[c].outcome)
               /\ Contains(text, "- **To**: " \o arguments["to"])
       /\ (Replied(c, "json") /\ name = "create_template" /\ HasKey(doc, "id"))
            => /\ IsTextResult(calls[c].outcome)
               /\ Contains(text, "- **Category**: " \o arguments["category"])

\* a step of one invocation leaves the other invocation's objects as they are
TouchesOneCall ==
    \A c, d \in Calls : (c # d /\ calls'[c] # calls[c]) => calls'[d] = calls[d]

\* C10: under any interleaving of two overlapping invocations, at the HTTP
\* call and at the close of the client that follows the reply, the
\* configuration is never rewritten, a step of one invocation changes
\* nothing of the other, each invocation's request and result are those of
\* the invocation run alone with the same arguments and response, and they
\* show its own arguments, never the other's.
C10_OverlapSafe ==
    /\ [](\A c \in Calls : calls[c].pc # "idle" =>
             RunsAsAlone(c) /\ ShowsOwnArguments(c))
    /\ [][config' = config /\ TouchesOneCall]_vars

\* C10 witness: c1 has its reply and is suspended in the close of its
\* client, not yet resumed, while c2, invoked for the same tool with other
\* arguments, has got another reply and has ended
C10_Witness ==
    /\ calls["c1"].pc = "closing"
    /\ calls["c1"].reply.kind = "json"
    /\ Replied("c2", "json")
    /\ calls["c1"].name = "list_templates"
    /\ calls["c2"].name = "list_templates"
    /\ calls["c1"].arguments # calls["c2"].arguments
    /\ calls["c1"].reply # calls["c2"].reply
    /\ HasKey(calls["c1"].reply.doc, "data")
    /\ HasKey(calls["c2"].reply.doc, "data")

\* the button has a "type" that the loop of create_template converts
RecognizedButton(btn) ==
    "type" \in DOMAIN btn /\ btn["type"] \in {"QUICK_REPLY", "URL"}

\* the button has a "type" and, when the type is converted, the keys the
\* conversion reads
ReadableButton(btn) ==
    /\ "type" \in DOMAIN btn
    /\ btn["type"] = "QUICK_REPLY" => "text" \in DOMAIN btn
    /\ btn["type"] = "URL" => {"text", "url"} \subseteq DOMAIN btn

\* what the claim expects of a recognized button: QUICK_REPLY carries its
\* text, URL its text and url
ExpectedButton(btn) ==
    IF btn["type"] = "QUICK_REPLY"
    THEN Obj2("type", JStr("QUICK_REPLY"), "text", JStr(btn["text"]))
    ELSE JObj(<< <<"type", JStr("URL")>>, <<"text", JStr(btn["text"])>>,
                 <<"url", JStr(btn["url"])>> >>)

\* the sub-list of the BUTTONS component of the request invocation c sent
SentButtons(c) ==
    LET components == Get(calls[c].requests[1].json, "components").v
        i == CHOOSE k \in DOMAIN components :
                Get(components[k], "type") = JStr("BUTTONS")
    IN Get(components[i], "buttons").v

ButtonsGiven(c) ==
    /\ calls[c].pc # "idle"
    /\ calls[c].name = "create_template"
    /\ ArgGiven(calls[c].arguments, "buttons")

\* C11: in create_template a button whose type is neither QUICK_REPLY nor
\* URL is skipped and causes no failure: the request is sent whenever every
\* button has the keys the loop reads of it (its type; text and url of the
\* converted types), whatever other types occur, and the sub-list of the
\* sent BUTTONS component is exactly the input buttons of recognized type,
\* in input order, QUICK_REPLY carrying text, URL carrying text and url.
C11_UnrecognizedButtonsSkipped ==
    \A c \in Calls :
       ButtonsGiven(c) =>
          LET buttons == calls[c].arguments["buttons"]
              recognized == SelectSeq(buttons, RecognizedButton)
          IN /\ (\A i \in DOMAIN buttons : ReadableButton(buttons[i]))
                   <=> Len(calls[c].requests) = 1
             /\ Len(calls[c].requests) = 1 =>
                   SentButtons(c) = [i \in DOMAIN recognized |->
                                       ExpectedButton(recognized[i])]

\* C11 witness: a request was sent for buttons QUICK_REPLY, PHONE_NUMBER,
\* URL; its BUTTONS component holds the first and the third
C11_Witness ==
    /\ ButtonsGiven("c1")
    /\ Len(calls["c1"].requests) = 1
    /\ Len(calls["c1"].arguments["buttons"]) = 3
    /\ calls["c1"].arguments["buttons"][1]["type"] = "QUICK_REPLY"
    /\ calls["c1"].arguments["buttons"][2]["type"] = "PHONE_NUMBER"
    /\ calls["c1"].arguments["buttons"][3]["type"] = "URL"
    /\ Len(SentButtons("c1")) = 2
====
